---- MODULE Spec2Model ----
(***************************************************************************)
(* Model of wireshark/mcp_dissector.c: the WebSocket frame header decoder  *)
(* of dissect_mcp_websocket and the JSON-RPC field scanner parse_json_rpc. *)
(*                                                                         *)
(* A buffer is a sequence of bytes (0..255); text is a sequence of ASCII   *)
(* codes.  C pointers into json_copy are 1-based positions into the        *)
(* sequence mem, NULL is position 0.  guint32 values are kept at their     *)
(* full width as two 16-bit limbs [hi, lo], a guint64 as four limbs.       *)
(***************************************************************************)
EXTENDS Integers, Sequences, FiniteSets, TLC

\* ------------------------------------------------------------------ bounds
\* number of captured bytes of a header-exploration buffer: 0..MaxCap
MaxCap == 12
\* number of fragments concatenated into a JSON text
MaxFrags == 4

\* ------------------------------------------------------- character codes
NUL == 0
TAB == 9
SPACE == 32
QUOTE == 34
COMMA == 44
MINUS == 45
COLON == 58
LBRACE == 123
RBRACE == 125

K_jsonrpc == <<34, 106, 115, 111, 110, 114, 112, 99, 34>>                 \* "jsonrpc"
K_method == <<34, 109, 101, 116, 104, 111, 100, 34>>                      \* "method"
K_id == <<34, 105, 100, 34>>                                              \* "id"
K_encrypted == <<34, 101, 110, 99, 114, 121, 112, 116, 101, 100, 34>>     \* "encrypted"
K_ciphertext == <<34, 99, 105, 112, 104, 101, 114, 116, 101, 120, 116, 34>> \* "ciphertext"
K_iv == <<34, 105, 118, 34>>                                              \* "iv"
K_ratchet_header == <<34, 114, 97, 116, 99, 104, 101, 116, 95, 104, 101, 97, 100, 101, 114, 34>> \* "ratchet_header"
K_params == <<34, 112, 97, 114, 97, 109, 115, 34>>                        \* "params"
K_result == <<34, 114, 101, 115, 117, 108, 116, 34>>                      \* "result"
K_code == <<34, 99, 111, 100, 101, 34>>                                   \* "code"
K_message == <<34, 109, 101, 115, 115, 97, 103, 101, 34>>                 \* "message"
K_agentId == <<34, 97, 103, 101, 110, 116, 73, 100, 34>>                  \* "agentId"
K_agent_id == <<34, 97, 103, 101, 110, 116, 95, 105, 100, 34>>            \* "agent_id"
S_true == <<116, 114, 117, 101>>                                          \* true

\* ------------------------------------------------------ fixed-width ints
Limb == 256 * 256

U32(h, l) == [hi |-> h, lo |-> l]
Zero32 == U32(0, 0)
Max32 == U32(Limb - 1, Limb - 1)

\* guint addition offset + payload_len: wraps modulo 2^32 (n is a small int)
AddWrap32(x, n) ==
    LET s == x.lo + n
    IN  U32((x.hi + (s \div Limb)) % Limb, s % Limb)

\* guint comparison x <= n for a small non-negative int n
Le32(x, n) == x.hi = 0 /\ x.lo <= n

\* (gint)x < 0
Negative32(x) == x.hi >= Limb \div 2

Min(S) == CHOOSE x \in S : \A y \in S : x <= y

\* ------------------------------------------------------ optional strings
Unset == [set |-> FALSE, val |-> <<>>]
Some(s) == [set |-> TRUE, val |-> s]

\* ---------------------------------------------------------- tvb accessors
tvb_captured_length(t) == Len(t)

tvb_get_guint8(t, off) == t[off + 1]

tvb_get_ntohs_le(t, off) == t[off + 2] * 256 + t[off + 1]

tvb_get_ntohs(t, off) == t[off + 1] * 256 + t[off + 2]

\* the 64-bit big-endian value as four 16-bit limbs, most significant first
tvb_get_ntoh64(t, off) ==
    [k \in 1..4 |-> tvb_get_ntohs(t, off + 2 * (k - 1))]

\* (guint32)payload_len_64
narrow_guint32(v) == U32(v[3], v[4])

\* tvb_get_guint8(tvb, 1) & 0x7F
length_code(b) == b % 128

\* the extended length bytes a length code announces
ext_bytes_wide(l) == IF l = 126 THEN 2 ELSE IF l = 127 THEN 10 ELSE 0

ext_bytes(l) == IF l = 126 THEN 2 ELSE IF l = 127 THEN 8 ELSE 0

\* (tvb_get_guint8(tvb, 0) & 0x80) >> 7
fin_bit(b) == (b \div 128) % 2

\* tvb_get_guint8(tvb, 0) & 0x0F
opcode_bits(b) == b % 16

\* ---------------------------------------------------- frame header decode
NoHeader ==
    [short |-> TRUE, fin |-> 0, opcode |-> 0, offset |-> 0, payload_len |-> Zero32]

\* lines 234-256 of dissect_mcp_websocket
parse_ws_header(t) ==
    IF tvb_captured_length(t) < 2 THEN NoHeader
    ELSE
      LET f == fin_bit(tvb_get_guint8(t, 0))
          op == opcode_bits(tvb_get_guint8(t, 0))
          l == length_code(tvb_get_guint8(t, 1))
      IN  IF tvb_captured_length(t) < 2 + ext_bytes(l) THEN NoHeader
          ELSE [short |-> FALSE, fin |-> f, opcode |-> op,
                offset |-> 2 + ext_bytes(l),
                payload_len |->
                  IF l = 126 THEN U32(0, tvb_get_ntohs(t, 2))
                  ELSE IF l = 127 THEN narrow_guint32(tvb_get_ntoh64(t, 2))
                  ELSE U32(0, l)]

\* line 267: payload_len > 0 && offset + payload_len <= tvb_captured_length(tvb)
payload_guard(t, off, plen) ==
    /\ plen # Zero32
    /\ Le32(AddWrap32(plen, off), tvb_captured_length(t))

\* ------------------------------------------------------- C string memory
\* mem is json_copy followed by whatever lies behind its allocation; bytes
\* beyond the modelled memory read as NUL.
Max2(a, b) == IF a >= b THEN a ELSE b

At(mem, i) == IF i >= 1 /\ i <= Len(mem) THEN mem[i] ELSE NUL

Put(mem, i, c) == IF i <= Len(mem) THEN [mem EXCEPT ![i] = c] ELSE Append(mem, c)

\* position of the terminator of the C string starting at p
strend(mem, p) ==
    Min({q \in p..Len(mem) : mem[q] = NUL} \cup {Max2(p, Len(mem) + 1)})

\* the first of the positions S, NULL if there is none
FirstOrNull(S) == IF S = {} THEN 0 ELSE Min(S)

strstr(mem, p, key) ==
    FirstOrNull({q \in p..(strend(mem, p) - Len(key)) :
                    \A k \in 1..Len(key) : mem[q + k - 1] = key[k]})

strchr(mem, p, ch) == FirstOrNull({q \in p..(strend(mem, p) - 1) : mem[q] = ch})

\* wmem_strdup(scope, mem + p)
wmem_strdup(mem, p) == SubSeq(mem, p, strend(mem, p) - 1)

\* while (*pos == ' ' || *pos == '\t') pos++;
skip_ws(mem, p) == Min({q \in p..strend(mem, p) : At(mem, q) \notin {SPACE, TAB}})

\* strncmp(pos, "true", 4) == 0
strncmp_true(mem, p) == \A k \in 1..4 : At(mem, p + k - 1) = S_true[k]

\* last position strncmp(pos, "true", 4) reads
strncmp_true_hi(mem, p) ==
    Min({p + k : k \in {j \in 0..3 : At(mem, p + j) # S_true[j + 1]}} \cup {p + 3})

\* A located value: pos is its position, 0 when the key or the colon is
\* missing; hi is the last position read.
NotFound(h) == [pos |-> 0, hi |-> h]

\* pos++; while (*pos == ' ' || *pos == '\t') pos++;
after_colon(mem, k, c) ==
    IF c = 0 THEN NotFound(strend(mem, k))
    ELSE [pos |-> skip_ws(mem, c + 1), hi |-> skip_ws(mem, c + 1)]

\* pos = strchr(pos, ':');
after_key(mem, k) ==
    IF k = 0 THEN NotFound(strend(mem, 1))
    ELSE after_colon(mem, k, strchr(mem, k, COLON))

\* pos = strstr(json_copy, key); and the steps to the value
locate(mem, key) == after_key(mem, strstr(mem, 1, key))

\* A field scan yields the value, the last position accessed and the memory.
Nothing(mem, h) == [val |-> Unset, hi |-> h, mem |-> mem]

\* if (end) { *end = '\0'; dup(value_start); *end = '"'; }
close_quote(mem, start, end) ==
    IF end # 0
      THEN [val |-> Some(wmem_strdup(Put(mem, end, NUL), start)), hi |-> end,
            mem |-> Put(Put(mem, end, NUL), end, QUOTE)]
      ELSE Nothing(mem, strend(mem, start))

\* if (*pos == '"') { pos++; value_start = pos; end = strchr(pos, '"'); ... }
quoted_value(mem, v) ==
    IF At(mem, v) = QUOTE THEN close_quote(mem, v + 1, strchr(mem, v + 1, QUOTE))
    ELSE Nothing(mem, v)

quoted_at(mem, loc) ==
    IF loc.pos = 0 THEN Nothing(mem, loc.hi) ELSE quoted_value(mem, loc.pos)

\* the string fields jsonrpc, method, ciphertext, iv, error_message
quoted_field(mem, key) == quoted_at(mem, locate(mem, key))

\* while (*end && *end != ',' && *end != '}') end++;
numeric_end(mem, v) ==
    Min({q \in v..strend(mem, v) : At(mem, q) \in {NUL, COMMA, RBRACE}})

\* *end = (*end == ',') ? ',' : '}';  with the memory as *end = '\0' left it
restore_byte(mem, end) ==
    Put(mem, end, IF At(mem, end) = COMMA THEN COMMA ELSE RBRACE)

\* if (end > value_start) { *end = '\0'; dup(value_start); restore }
numeric_value(mem, v, end) ==
    IF end > v
      THEN [val |-> Some(wmem_strdup(Put(mem, end, NUL), v)), hi |-> end,
            mem |-> restore_byte(Put(mem, end, NUL), end)]
      ELSE Nothing(mem, end)

id_at(mem, loc) ==
    IF loc.pos = 0 THEN Nothing(mem, loc.hi)
    ELSE IF At(mem, loc.pos) = QUOTE THEN quoted_value(mem, loc.pos)
    ELSE numeric_value(mem, loc.pos, numeric_end(mem, loc.pos))

\* lines 405-433
id_field(mem) == id_at(mem, locate(mem, K_id))

\* the brace loop; returns end
RECURSIVE brace_scan(_, _, _)
brace_scan(mem, end, brace_count) ==
    IF At(mem, end) = NUL THEN end
    ELSE IF At(mem, end) = LBRACE THEN brace_scan(mem, end + 1, brace_count + 1)
    ELSE IF At(mem, end) = RBRACE THEN
      (IF brace_count - 1 = 0 THEN end + 1 ELSE brace_scan(mem, end + 1, brace_count - 1))
    ELSE brace_scan(mem, end + 1, brace_count)

\* if (end > value_start) { *end = '\0'; dup(value_start); *end = '}'; }
brace_value(mem, v, end) ==
    IF end > v
      THEN [val |-> Some(wmem_strdup(Put(mem, end, NUL), v)), hi |-> end,
            mem |-> Put(Put(mem, end, NUL), end, RBRACE)]
      ELSE Nothing(mem, end)

brace_at(mem, loc) ==
    IF loc.pos = 0 THEN Nothing(mem, loc.hi)
    ELSE IF At(mem, loc.pos) = LBRACE
      THEN brace_value(mem, loc.pos, brace_scan(mem, loc.pos, 0))
    ELSE Nothing(mem, loc.pos)

\* the object fields ratchet_header, params, result
brace_field(mem, key) == brace_at(mem, locate(mem, key))

\* ---------------------------------------------------------- parse_json_rpc
AGENT_ID_LEN == 256

\* if (end && (end - pos) < (int)agent_id_len) strncpy(agent_id, pos, end - pos)
agent_copy(mem, pos, end) ==
    IF end # 0 /\ end - pos < AGENT_ID_LEN THEN SubSeq(mem, pos, end - 1) ELSE <<>>

agent_value(mem, v) ==
    IF At(mem, v) = QUOTE THEN agent_copy(mem, v + 1, strchr(mem, v + 1, QUOTE))
    ELSE <<>>

agent_after_colon(mem, c) ==
    IF c = 0 THEN <<>> ELSE agent_value(mem, skip_ws(mem, c + 1))

agent_after_key(mem, k) ==
    IF k = 0 THEN <<>> ELSE agent_after_colon(mem, strchr(mem, k, COLON))

\* pos = strstr(params, "\"agentId\""); if (!pos) pos = strstr(params, "\"agent_id\"");
agent_key(mem, k) == IF k # 0 THEN k ELSE strstr(mem, 1, K_agent_id)

\* the value of "agentId", or else the value of "agent_id"
agent_first_value(mem, a) == IF a # <<>> THEN a ELSE agent_after_key(mem, strstr(mem, 1, K_agent_id))

extract_agent_id_fallback(params) ==
    agent_first_value(params \o <<NUL>>,
        agent_after_key(params \o <<NUL>>, strstr(params \o <<NUL>>, 1, K_agentId)))

\* extract_agent_id: the bytes left in the caller's zeroed agent_id buffer
extract_agent_id(params) ==
    agent_after_key(params \o <<NUL>>,
        agent_key(params \o <<NUL>>, strstr(params \o <<NUL>>, 1, K_agentId)))

IsDigit(c) == c >= 48 /\ c <= 57

\* strtol(pos, &end, 10) at a '-' or a digit; digit runs of the modelled
\* texts stay far below the width of long and int
RECURSIVE strtol_digits(_, _, _)
strtol_digits(mem, p, acc) ==
    IF IsDigit(At(mem, p)) THEN strtol_digits(mem, p + 1, acc * 10 + (At(mem, p) - 48))
    ELSE [val |-> acc, hi |-> p]

Negated(r) == [val |-> 0 - r.val, hi |-> r.hi]

strtol(mem, p) ==
    IF At(mem, p) = MINUS THEN Negated(strtol_digits(mem, p + 1, 0))
    ELSE strtol_digits(mem, p, 0)

EmptyData ==
    [jsonrpc |-> Unset, method |-> Unset, id |-> Unset, params |-> Unset,
     result |-> Unset, error_code |-> 0, error_message |-> Unset,
     agent_id |-> Unset, encrypted |-> FALSE, ciphertext |-> Unset,
     iv |-> Unset, ratchet_header |-> Unset]

\* A parser state s: the memory, the last position accessed, the record d.
\* Store puts the outcome r of a field scan into it.
Store(s, name, r) ==
    [mem |-> r.mem, hi |-> Max2(s.hi, r.hi), d |-> [s.d EXCEPT ![name] = r.val]]

Read(s, h) == [s EXCEPT !.hi = Max2(s.hi, h)]

\* json_copy = wmem_strdup(json_str), with heap_after behind it
copied(json_str, heap_after) ==
    [mem |-> json_str \o <<NUL>> \o heap_after, hi |-> Len(json_str) + 1,
     d |-> EmptyData]

jsonrpc_field(s) == Store(s, "jsonrpc", quoted_field(s.mem, K_jsonrpc))

method_field(s) == Store(s, "method", quoted_field(s.mem, K_method))

id_step(s) == Store(s, "id", id_field(s.mem))

ciphertext_field(s) == Store(s, "ciphertext", quoted_field(s.mem, K_ciphertext))

iv_field(s) == Store(s, "iv", quoted_field(s.mem, K_iv))

ratchet_header_field(s) ==
    Store(s, "ratchet_header", brace_field(s.mem, K_ratchet_header))

encrypted_at(s, loc) ==
    IF loc.pos = 0 THEN Read(s, loc.hi)
    ELSE IF ~strncmp_true(s.mem, loc.pos)
      THEN Read(s, strncmp_true_hi(s.mem, loc.pos))
    ELSE ratchet_header_field(iv_field(ciphertext_field(
           [Read(s, loc.pos + 3) EXCEPT !.d.encrypted = TRUE])))

\* lines 435-517
encryption_fields(s) == encrypted_at(s, locate(s.mem, K_encrypted))

\* if (strlen(agent_id) > 0) data->agent_id = wmem_strdup(agent_id);
store_agent_id(s, agent_id) ==
    IF Len(agent_id) > 0 THEN [s EXCEPT !.d.agent_id = Some(agent_id)] ELSE s

agent_id_step(s) ==
    IF s.d.params.set THEN store_agent_id(s, extract_agent_id(s.d.params.val))
    ELSE s

\* lines 519-554
params_field(s) == agent_id_step(Store(s, "params", brace_field(s.mem, K_params)))

result_field(s) == Store(s, "result", brace_field(s.mem, K_result))

store_error_code(s, r) == [Read(s, r.hi) EXCEPT !.d.error_code = r.val]

error_code_at(s, loc) ==
    IF loc.pos # 0 /\ (At(s.mem, loc.pos) = MINUS \/ IsDigit(At(s.mem, loc.pos)))
      THEN store_error_code(s, strtol(s.mem, loc.pos))
      ELSE Read(s, loc.hi)

\* lines 587-598
error_code_field(s) == error_code_at(s, locate(s.mem, K_code))

error_message_field(s) == Store(s, "error_message", quoted_field(s.mem, K_message))

\* the fields in source order; the result is the final parser state
parse_json_rpc(json_str, heap_after) ==
    error_message_field(error_code_field(result_field(params_field(
      encryption_fields(id_step(method_field(jsonrpc_field(
        copied(json_str, heap_after)))))))))

\* ------------------------------------------------------ the summary columns
S_2_0 == <<50, 46, 48>>                                                   \* 2.0
S_MCP == <<77, 67, 80>>                                                   \* MCP
S_MCP_method == <<77, 67, 80, 32>>                                        \* "MCP " of "MCP %s"
S_Encrypted == <<32, 40, 69, 110, 99, 114, 121, 112, 116, 101, 100, 41>>  \* " (Encrypted)"
S_ERROR == <<32, 91, 69, 82, 82, 79, 82, 32>>                             \* " [ERROR " of " [ERROR %d]"
S_ERROR_end == <<93>>                                                     \* "]"

\* the decimal digits of a non-negative int
RECURSIVE digits(_)
digits(n) == IF n < 10 THEN <<48 + n>> ELSE digits(n \div 10) \o <<48 + (n % 10)>>

\* the conversion %d
format_d(n) == IF n < 0 THEN <<MINUS>> \o digits(0 - n) ELSE digits(n)

\* A column write: col_set_str and col_add_fstr replace the text of the
\* column, col_append_str and col_append_fstr extend it.
col_set(col, s) == [col |-> col, append |-> FALSE, text |-> s]

col_append(col, s) == [col |-> col, append |-> TRUE, text |-> s]

\* lines 338-343
info_method(d) ==
    IF d.method.set
      THEN <<col_set("info", S_MCP_method \o d.method.val)>>
             \o (IF d.encrypted THEN <<col_append("info", S_Encrypted)>> ELSE <<>>)
      ELSE <<>>

\* lines 346-348
info_error(d) ==
    IF d.error_code # 0
      THEN <<col_append("info", S_ERROR \o format_d(d.error_code) \o S_ERROR_end)>>
      ELSE <<>>

\* the error suffix written only behind a method
protocol_info_nested(d) ==
    <<col_set("protocol", S_MCP)>>
      \o (IF d.method.set THEN info_method(d) \o info_error(d) ELSE <<>>)

\* lines 336-348
protocol_info(d) == <<col_set("protocol", S_MCP)>> \o info_method(d) \o info_error(d)

\* line 278: if (json_data.jsonrpc && strcmp(json_data.jsonrpc, "2.0") == 0)
column_writes(d) == IF d.jsonrpc = Some(S_2_0) THEN protocol_info(d) ELSE <<>>

\* the columns c after one write, and after a sequence of writes
write_column(c, w) ==
    [c EXCEPT ![w.col] = IF w.append THEN c[w.col] \o w.text ELSE w.text]

RECURSIVE write_columns(_, _)
write_columns(c, ws) ==
    IF ws = <<>> THEN c ELSE write_columns(write_column(c, Head(ws)), Tail(ws))

\* ------------------------------------------------------------- the inputs
RECURSIVE Concat(_)
Concat(ss) == IF ss = <<>> THEN <<>> ELSE Head(ss) \o Concat(Tail(ss))

\* every concatenation of at most MaxFrags fragments
TextsOver(frags) == {Concat(fs) : fs \in UNION {[1..n -> frags] : n \in 0..MaxFrags}}

\* objects, numeric ids and duplicate keys
FragsObject ==
    {
      <<34, 112, 97, 114, 97, 109, 115, 34, 58, 123>>,  \* "params":{
      <<34, 114, 101, 115, 117, 108, 116, 34, 58, 123>>,  \* "result":{
      <<123>>,  \* {
      <<125>>,  \* }
      <<44>>,  \* ,
      <<34, 105, 100, 34, 58, 49>>,  \* "id":1
      <<34, 109, 101, 116, 104, 111, 100, 34, 58, 34, 97, 34>>,  \* "method":"a"
      <<34, 109, 101, 116, 104, 111, 100, 34, 58, 34, 98, 34>>  \* "method":"b"
    }

\* the encryption flag and the fields it gates
FragsEncryption ==
    {
      <<34, 101, 110, 99, 114, 121, 112, 116, 101, 100, 34, 58>>,  \* "encrypted":
      <<116, 114, 117, 101>>,  \* true
      <<102, 97, 108, 115, 101>>,  \* false
      <<32>>,  \* <space>
      <<44>>,  \* ,
      <<34, 105, 118, 34, 58, 34, 97, 34>>,  \* "iv":"a"
      <<34, 99, 105, 112, 104, 101, 114, 116, 101, 120, 116, 34, 58, 34, 98, 34>>,  \* "ciphertext":"b"
      <<34, 114, 97, 116, 99, 104, 101, 116, 95, 104, 101, 97, 100, 101, 114, 34, 58, 123>>,  \* "ratchet_header":{
      <<125>>  \* }
    }

\* agent identifiers inside and outside params
FragsAgent ==
    {
      <<34, 112, 97, 114, 97, 109, 115, 34, 58, 123>>,  \* "params":{
      <<125>>,  \* }
      <<44>>,  \* ,
      <<34, 97, 103, 101, 110, 116, 73, 100, 34, 58, 34, 97, 34>>,  \* "agentId":"a"
      <<34, 97, 103, 101, 110, 116, 73, 100, 34, 58, 49>>,  \* "agentId":1
      <<34, 97, 103, 101, 110, 116, 73, 100, 34, 58, 34, 34>>,  \* "agentId":""
      <<34, 97, 103, 101, 110, 116, 95, 105, 100, 34, 58, 34, 98, 34>>  \* "agent_id":"b"
    }

\* the fields the summary is made of
FragsSummary ==
    {
      <<34, 106, 115, 111, 110, 114, 112, 99, 34, 58, 34, 50, 46, 48, 34>>,  \* "jsonrpc":"2.0"
      <<34, 106, 115, 111, 110, 114, 112, 99, 34, 58, 34, 49, 46, 48, 34>>,  \* "jsonrpc":"1.0"
      <<44>>,  \* ,
      <<34, 109, 101, 116, 104, 111, 100, 34, 58, 34, 97, 34>>,  \* "method":"a"
      <<34, 101, 110, 99, 114, 121, 112, 116, 101, 100, 34, 58, 116, 114, 117, 101>>,  \* "encrypted":true
      <<34, 99, 111, 100, 101, 34, 58, 45, 53>>,  \* "code":-5
      <<34, 99, 111, 100, 101, 34, 58, 49, 50>>,  \* "code":12
      <<34, 99, 111, 100, 101, 34, 58, 48>>  \* "code":0
    }

\* the values an id can have
FragsId ==
    {
      <<34, 105, 100, 34, 58>>,  \* "id":
      <<32>>,  \* <space>
      <<110, 117, 108, 108>>,  \* null
      <<45, 49>>,  \* -1
      <<34, 120, 34>>,  \* "x"
      <<123>>,  \* {
      <<125>>,  \* }
      <<44>>  \* ,
    }

\* whole messages
Examples ==
    {
      <<123, 34, 106, 115, 111, 110, 114, 112, 99, 34, 58, 34, 50, 46, 48, 34, 44, 34, 109, 101, 116, 104, 111, 100, 34, 58, 34, 116, 111, 111, 108, 115, 47, 99, 97, 108, 108, 34, 44, 34, 105, 100, 34, 58, 34, 52, 50, 34, 125>>,  \* {"jsonrpc":"2.0","method":"tools/call","id":"42"}
      <<123, 34, 105, 100, 34, 58, 55, 44, 34, 112, 97, 114, 97, 109, 115, 34, 58, 123, 34, 97, 103, 101, 110, 116, 73, 100, 34, 58, 34, 98, 111, 116, 45, 49, 34, 44, 34, 120, 34, 58, 123, 34, 121, 34, 58, 49, 125, 125, 44, 34, 107, 34, 58, 49, 125>>,  \* {"id":7,"params":{"agentId":"bot-1","x":{"y":1}},"k":1}
      <<123, 34, 106, 115, 111, 110, 114, 112, 99, 34, 58, 34, 50, 46, 48, 34, 44, 34, 105, 100, 34, 58, 51, 44, 34, 101, 110, 99, 114, 121, 112, 116, 101, 100, 34, 58, 116, 114, 117, 101, 44, 34, 105, 118, 34, 58, 34, 97, 34, 125>>,  \* {"jsonrpc":"2.0","id":3,"encrypted":true,"iv":"a"}
      <<123, 34, 106, 115, 111, 110, 114, 112, 99, 34, 58, 34, 50, 46, 48, 34, 44, 34, 105, 100, 34, 58, 49, 50>>,  \* {"jsonrpc":"2.0","id":12
      <<123, 34, 101, 114, 114, 111, 114, 34, 58, 123, 34, 99, 111, 100, 101, 34, 58, 45, 51, 50, 54, 48, 49, 44, 34, 109, 101, 115, 115, 97, 103, 101, 34, 58, 34, 110, 111, 34, 125, 125>>  \* {"error":{"code":-32601,"message":"no"}}
    }

\* what may lie behind the json_copy allocation: zeroed memory, or the tail
\* of a longer text an earlier packet left at the same address
StaleTail == <<44, 34, 101, 110, 99, 114, 121, 112, 116, 101, 100, 34, 58, 116, 114, 117, 101, 44, 34, 105, 118, 34, 58, 34, 97, 34, 125>>  \* ,"encrypted":true,"iv":"a"}

Heaps == {<<>>, StaleTail}

Texts == TextsOver(FragsObject) \cup TextsOver(FragsEncryption)
           \cup TextsOver(FragsAgent) \cup TextsOver(FragsSummary)
           \cup TextsOver(FragsId) \cup Examples

\* an unmasked final text frame around a text of at most 125 bytes
TextFrame(t) == <<129, Len(t)>> \o t

\* header bytes: FIN/RSV/opcode combinations and length codes, masked or not
Byte0s == {129, 1, 130, 249}

Byte1s == {0, 1, 3, 125, 126, 127, 131, 254, 255}

\* the eight bytes behind the first two: extended lengths or payload
Exts ==
    { <<0, 0, 0, 0, 0, 0, 1, 44>>,           \* 64-bit 300
      <<1, 0, 0, 0, 0, 0, 0, 0>>,            \* 16-bit 256
      <<0, 2, 123, 125, 0, 0, 0, 0>>,        \* 16-bit 2, then {}
      <<0, 0, 0, 0, 0, 0, 0, 2>>,            \* 64-bit 2
      <<0, 0, 0, 0, 255, 255, 255, 255>>,    \* 64-bit 2^32 - 1
      <<0, 0, 0, 0, 255, 255, 255, 246>>,    \* 64-bit 2^32 - 10
      <<0, 0, 0, 1, 0, 0, 0, 2>>,            \* 64-bit 2^32 + 2
      <<123, 125, 34, 0, 200, 0, 0, 0>>      \* {}" NUL and a non-ASCII byte
    }

Tails == {<<123, 125>>, <<34, 105, 100, 34, 58, 49>>}  \* {}  and  "id":1

Prefix(b, n) == SubSeq(b, 1, IF n < Len(b) THEN n ELSE Len(b))

HeaderBuffers ==
    {Prefix(<<b0, b1>> \o e \o tl, n) :
        b0 \in Byte0s, b1 \in Byte1s, e \in Exts, tl \in Tails, n \in 0..MaxCap}

Buffers == HeaderBuffers \cup {TextFrame(t) : t \in Texts}

\* ------------------------------------------------------------ the dissector
\* tvb_get_string_enc(..., ENC_ASCII): a byte above 127 becomes U+FFFD in UTF-8
RECURSIVE tvb_get_string_enc(_)
tvb_get_string_enc(bytes) ==
    IF bytes = <<>> THEN <<>>
    ELSE (IF Head(bytes) >= 128 THEN <<239, 191, 189>> ELSE <<Head(bytes)>>)
           \o tvb_get_string_enc(Tail(bytes))

\* the C string a char* to these bytes denotes: it ends at the first NUL
c_string(bytes) == wmem_strdup(bytes, 1)

\* tvb_new_subset_length(tvb, offset, payload_len), length taken as a gint:
\* the bytes of the subset, limited to the captured ones.  A negative length
\* raises an exception or, read as "to the end", yields the remaining bytes,
\* depending on the library version.
tvb_new_subset_length(t, off, plen) ==
    IF Negative32(plen) THEN {Unset, Some(SubSeq(t, off + 1, Len(t)))}
    ELSE IF plen.hi = 0 /\ off + plen.lo <= Len(t)
      THEN {Some(SubSeq(t, off + 1, off + plen.lo))}
      ELSE {Some(SubSeq(t, off + 1, Len(t)))}

\* the outcome of a call that entered parse_json_rpc and got the state r back
parsed(base, slice, js, hp, r) ==
    [base EXCEPT !.payload_tvb = slice, !.json_str = Some(js),
                 !.json_copy = r.mem, !.heap = hp, !.hi = r.hi,
                 !.json_data = r.d, !.cols = column_writes(r.d)]

run(base, slice, js, hp) == parsed(base, slice, js, hp, parse_json_rpc(js, hp))

\* r0 is the outcome over zeroed memory.  When the parser accessed memory
\* behind the allocation, the call may crash or see any of the heaps hs there.
behind(base, slice, js, r0, hs) ==
    IF r0.hi <= Len(js) + 1 THEN {r0}
    ELSE {[r0 EXCEPT !.status = "crash", !.json_data = EmptyData, !.cols = <<>>]}
           \cup {run(base, slice, js, hp) : hp \in hs}

\* the outcomes of lines 272-353 on a text payload
text_outcomes(base, slice, hs) ==
    behind(base, slice, c_string(tvb_get_string_enc(slice.val)),
           run(base, slice, c_string(tvb_get_string_enc(slice.val)), <<>>), hs)

\* the outcomes of lines 267-354 once the payload subset was asked for
payload_outcomes(base, slice, hs) ==
    IF ~slice.set THEN {[base EXCEPT !.status = "exception"]}
    ELSE IF base.opcode = 1 THEN text_outcomes(base, slice, hs)
    ELSE {[base EXCEPT !.payload_tvb = slice]}

\* the outcome of a call whose header h is complete, before the payload
decoded(h) ==
    [status |-> "ok", fin |-> h.fin, opcode |-> h.opcode,
     offset |-> h.offset, payload_len |-> h.payload_len,
     ret |-> AddWrap32(h.payload_len, h.offset),
     payload_tvb |-> Unset, json_str |-> Unset, json_copy |-> <<>>,
     heap |-> <<>>, hi |-> 0, json_data |-> EmptyData, cols |-> <<>>]

after_header(t, h, hs) ==
    IF h.short THEN {[decoded(h) EXCEPT !.status = "TooShort", !.ret = Zero32]}
    ELSE IF ~payload_guard(t, h.offset, h.payload_len) THEN {decoded(h)}
    ELSE UNION {payload_outcomes(decoded(h), slice, hs) :
                  slice \in tvb_new_subset_length(t, h.offset, h.payload_len)}

\* every outcome of one call of the dissector on the buffer t
dissect_mcp_websocket(t) == after_header(t, parse_ws_header(t), Heaps)

\* The packet scope is freed after every packet and its memory handed out
\* again unchanged: behind the json_copy of a later call lies zeroed memory
\* or what is left of the json_copy of the call before, from any offset.
Suffixes(m) == {SubSeq(m, i, Len(m)) : i \in 1..Len(m)}

recycled(pool) == {<<>>} \cup Suffixes(pool)

\* every outcome of a call on t when the call before left pool
dissect_next(t, pool) == after_header(t, parse_ws_header(t), recycled(pool))

\* the json_copy allocation as a call on a text of n bytes leaves it
allocation(mem, n) == SubSeq(mem, 1, Min({n + 1, Len(mem)}))

\* what a call with outcome r leaves in the packet scope
left_behind(pool, r) ==
    IF r.json_str.set THEN allocation(r.json_copy, Len(r.json_str.val)) ELSE pool

\* ---------------------------------------------------------------- the state
VARIABLES
    pc,           \* "ready": the buffer is handed over; "done": the call ended
    tvb,          \* the captured bytes
    status,       \* "TooShort" (return 0 before anything is rendered), "ok",
                  \* "exception" (raised by the library), "crash"
    fin, opcode, offset, payload_len,   \* the decoded header
    ret,          \* offset + payload_len as a guint, the value a call returns
                  \* at line 356; 0 at the early returns
    payload_tvb,  \* the payload subset, when line 268 created one
    json_str,     \* the text handed to parse_json_rpc, when it was called
    json_copy,    \* the memory at json_copy when parse_json_rpc returns
    heap,         \* the bytes that lay behind the json_copy allocation
    hi,           \* the last position of that memory parse_json_rpc accessed
    json_data,    \* the record parse_json_rpc filled
    cinfo,        \* pinfo->cinfo: the texts of COL_PROTOCOL and COL_INFO
    cinfo0,       \* the columns as the packet reached the dissector
    pool,         \* what the packet before left where json_copy is allocated
    calls,        \* the number of packets dissected before this one
    first         \* the text and the Message of the first extraction

vars == <<pc, tvb, status, fin, opcode, offset, payload_len, ret, payload_tvb,
          json_str, json_copy, heap, hi, json_data, cinfo, cinfo0, pool, calls,
          first>>

\* the columns as the TCP dissector leaves them
S_TCP == <<84, 67, 80>>                                                   \* TCP
S_ports == <<53, 50, 49, 32, 62, 32, 56, 48, 56, 50>>                     \* 521 > 8082

Columns == {[protocol |-> S_TCP, info |-> <<>>], [protocol |-> S_TCP, info |-> S_ports]}

NoCall == [set |-> FALSE, text |-> <<>>, data |-> EmptyData]

\* the call has not started: nothing decoded yet
Fresh ==
    /\ pc = "ready"
    /\ status = "none"
    /\ fin = 0 /\ opcode = 0 /\ offset = 0 /\ payload_len = Zero32
    /\ ret = Zero32
    /\ payload_tvb = Unset /\ json_str = Unset
    /\ json_copy = <<>> /\ heap = <<>> /\ hi = 0
    /\ json_data = EmptyData

\* the call ends with the outcome r
Returns(r) ==
    /\ status' = r.status
    /\ fin' = r.fin /\ opcode' = r.opcode /\ offset' = r.offset
    /\ payload_len' = r.payload_len
    /\ ret' = r.ret
    /\ payload_tvb' = r.payload_tvb /\ json_str' = r.json_str
    /\ json_copy' = r.json_copy /\ heap' = r.heap /\ hi' = r.hi
    /\ json_data' = r.json_data
    /\ cinfo' = write_columns(cinfo, r.cols)
    /\ pc' = "done"

Init ==
    /\ Fresh
    /\ tvb \in Buffers
    /\ cinfo \in Columns /\ cinfo0 = cinfo
    /\ pool = <<>> /\ calls = 0 /\ first = NoCall

Dissect ==
    /\ pc = "ready"
    /\ \E r \in dissect_mcp_websocket(tvb) : Returns(r)
    /\ UNCHANGED <<tvb, cinfo0, pool, calls, first>>

Next == Dissect

Spec == Init /\ [][Next]_vars

\* ------------------------------------------------- one packet after another
\* number of packets handed to the dissector in a row
MaxCalls == 3

\* the texts of the packets of a capture
CallTexts ==
    {
      <<34, 105, 100, 34, 58, 49>>,  \* "id":1
      <<123, 34, 106, 115, 111, 110, 114, 112, 99, 34, 58, 34, 50, 46, 48, 34, 44, 34, 105, 100, 34, 58, 51, 44, 34, 101, 110, 99, 114, 121, 112, 116, 101, 100, 34, 58, 116, 114, 117, 101, 44, 34, 105, 118, 34, 58, 34, 97, 34, 125>>,  \* {"jsonrpc":"2.0","id":3,"encrypted":true,"iv":"a"}
      <<123, 34, 106, 115, 111, 110, 114, 112, 99, 34, 58, 34, 50, 46, 48, 34, 44, 34, 109, 101, 116, 104, 111, 100, 34, 58, 34, 116, 111, 111, 108, 115, 47, 99, 97, 108, 108, 34, 44, 34, 105, 100, 34, 58, 34, 52, 50, 34, 125>>,  \* {"jsonrpc":"2.0","method":"tools/call","id":"42"}
      <<34, 112, 97, 114, 97, 109, 115, 34, 58, 123>>,  \* "params":{
      <<123, 34, 105, 100, 34, 58, 55, 44, 34, 112, 97, 114, 97, 109, 115, 34, 58, 123, 34, 97, 103, 101, 110, 116, 73, 100, 34, 58, 34, 98, 111, 116, 45, 49, 34, 125, 125>>  \* {"id":7,"params":{"agentId":"bot-1"}}
    }

\* text frames, a buffer too short for a header, a binary frame
CallBuffers == {TextFrame(t) : t \in CallTexts} \cup {<<129>>, <<130, 2, 123, 125>>}

\* the first call that returned a Message, kept for comparison
first_call(f, r) ==
    IF ~f.set /\ r.json_str.set /\ r.status # "crash"
      THEN [set |-> TRUE, text |-> r.json_str.val, data |-> r.json_data]
      ELSE f

InitCalls ==
    /\ Fresh
    /\ tvb \in CallBuffers
    /\ cinfo = [protocol |-> S_TCP, info |-> S_ports] /\ cinfo0 = cinfo
    /\ pool = <<>> /\ calls = 0 /\ first = NoCall

\* the dissector is called on the packet; the packet scope holds pool
DissectNext ==
    /\ pc = "ready"
    /\ \E r \in dissect_next(tvb, pool) :
         /\ Returns(r)
         /\ pool' = left_behind(pool, r)
         /\ first' = first_call(first, r)
    /\ UNCHANGED <<tvb, cinfo0, calls>>

\* the framework frees the packet scope and hands over the next packet;
\* json_data is a local of the next call, zeroed at line 230
NextPacket ==
    /\ pc = "done" /\ status # "crash"
    /\ calls + 1 < MaxCalls
    /\ calls' = calls + 1
    /\ tvb' \in CallBuffers
    /\ pc' = "ready"
    /\ status' = "none"
    /\ fin' = 0 /\ opcode' = 0 /\ offset' = 0 /\ payload_len' = Zero32
    /\ ret' = Zero32
    /\ payload_tvb' = Unset /\ json_str' = Unset
    /\ json_copy' = <<>> /\ heap' = <<>> /\ hi' = 0
    /\ json_data' = EmptyData
    /\ cinfo' = cinfo0
    /\ UNCHANGED <<cinfo0, pool, first>>

NextCalls == DissectNext \/ NextPacket

SpecCalls == InitCalls /\ [][NextCalls]_vars

\* ------------------------------------------------- what the claims refer to
Done == pc = "done"

Cap == Len(tvb)

\* the 7-bit length code of byte 1, the mask bit left out
LenCode == tvb[2] % 128

HeaderComplete ==
    /\ Cap >= 2
    /\ LenCode = 126 => Cap >= 4
    /\ LenCode = 127 => Cap >= 10

\* big-endian 16-bit value of the bytes at positions i and i + 1 (1-based)
BE16(i) == tvb[i] * 256 + tvb[i + 1]

\* the 64-bit length of bytes 2-9 is at least 2^32
Len64Big == \E i \in 3..6 : tvb[i] # 0

\* header_length + payload_length <= captured length, as true integers
FullyCaptured == payload_len.hi = 0 /\ offset + payload_len.lo <= Cap

\* a Message was produced from the text handed to the extractor
Extracted == Done /\ json_str.set /\ status # "crash"

Text == json_str.val

\* steps 1-3 on the unmodified text: the position of the value of the first
\* occurrence of key, 0 if there is none
ValuePos(text, key) == locate(text \o <<NUL>>, key).pos

Count(text, v, e, ch) == Cardinality({i \in v..e : text[i] = ch})

\* the closing braces at which the depth counted from v is zero
Closers(text, v) ==
    {e \in v..Len(text) :
        text[e] = RBRACE /\ Count(text, v, e, LBRACE) = Count(text, v, e, RBRACE)}

StartsObject(text, key) ==
    ValuePos(text, key) # 0 /\ At(text, ValuePos(text, key)) = LBRACE

BraceKey(f) ==
    IF f = "params" THEN K_params
    ELSE IF f = "result" THEN K_result ELSE K_ratchet_header

\* the value after the first "encrypted" key of the text is the literal true
EncTrue(text) ==
    ValuePos(text, K_encrypted) # 0
      /\ SubSeq(text \o <<NUL, NUL, NUL, NUL>>, ValuePos(text, K_encrypted),
                ValuePos(text, K_encrypted) + 3) = S_true

\* ------------------------------------------------------------------ claims

\* C1: the payload branch is entered (a payload subset created, the text
\* handed to the extractor) only when offset + payload_len, added without
\* wrapping, is at most the captured length; otherwise the payload is treated
\* as truncated: the call ends normally without touching the payload.
C1_PayloadOnlyWhenCaptured ==
    (Done /\ HeaderComplete /\ ~FullyCaptured)
      => (status = "ok" /\ ~payload_tvb.set /\ ~json_str.set)

\* C2: every access parse_json_rpc makes to json_copy lies inside the text
\* and its terminator, and when it returns the terminator is still in place.
C2_ScansStayInsideText ==
    (Done /\ json_str.set)
      => (hi <= Len(Text) + 1 /\ At(json_copy, Len(Text) + 1) = NUL)

\* C3: params, result and ratchet_header are unset when their value starts
\* with { and no closing brace brings the depth back to zero.
C3_UnclosedObjectUnset ==
    Extracted =>
      \A f \in {"params", "result", "ratchet_header"} :
        (StartsObject(Text, BraceKey(f))
           /\ Closers(Text, ValuePos(Text, BraceKey(f))) = {})
          => ~json_data[f].set

\* C4: with length code 127 and a 64-bit length of at least 2^32 the call
\* either fails or reports the saturated length 2^32 - 1.
C4_SaturatesOrFails ==
    (Done /\ Cap >= 10 /\ LenCode = 127 /\ Len64Big)
      => (status = "TooShort" \/ payload_len = Max32)

\* C5: the call fails (returns 0 with nothing decoded or rendered) exactly
\* when the header is incomplete: fewer than 2 bytes, or fewer than 4 with
\* code 126, or fewer than 10 with code 127.
C5_FailsIffHeaderShort ==
    Done =>
      /\ (status = "TooShort") <=> ~HeaderComplete
      /\ status = "TooShort" =>
           (ret = Zero32 /\ ~payload_tvb.set /\ ~json_str.set
              /\ json_data = EmptyData)

C5_Witness == Done /\ Cap = 9 /\ LenCode = 127 /\ status = "TooShort"

\* C6: with a complete header, fin is bit 7 and opcode bits 0-3 of byte 0;
\* code L <= 125 gives header 2 and length L, code 126 header 4 and the
\* big-endian 16-bit length, code 127 with a length below 2^32 header 10
\* and that length.
C6_HeaderFields ==
    (Done /\ HeaderComplete) =>
      /\ fin = (IF tvb[1] >= 128 THEN 1 ELSE 0)
      /\ opcode = tvb[1] % 16
      /\ LenCode <= 125 => (offset = 2 /\ payload_len = U32(0, LenCode))
      /\ LenCode = 126 => (offset = 4 /\ payload_len = U32(0, BE16(3)))
      /\ (LenCode = 127 /\ ~Len64Big)
           => (offset = 10 /\ payload_len = U32(BE16(7), BE16(9)))

C6_Witness ==
    Done /\ Cap >= 10 /\ LenCode = 127 /\ payload_len = U32(0, 300) /\ offset = 10

\* C7: when the value of the first "params" key of the text starts with {
\* and is closed, params is the text from that { through the first } at
\* which the depth is zero.
C7_ParamsIsBalancedObject ==
    (Extracted /\ StartsObject(Text, K_params)
       /\ Closers(Text, ValuePos(Text, K_params)) # {})
      => json_data.params =
           Some(SubSeq(Text, ValuePos(Text, K_params),
                       Min(Closers(Text, ValuePos(Text, K_params)))))

\* steps 1-4 for every field, each on its own unmodified copy of the text
AloneMessage(text) ==
    LET m == text \o <<NUL>>
        enc == EncTrue(text)
        params == brace_field(m, K_params).val
        agent == IF params.set THEN extract_agent_id(params.val) ELSE <<>>
        code == ValuePos(text, K_code)
    IN  [jsonrpc |-> quoted_field(m, K_jsonrpc).val,
         method |-> quoted_field(m, K_method).val,
         id |-> id_field(m).val,
         params |-> params,
         result |-> brace_field(m, K_result).val,
         error_code |->
           IF code # 0 /\ (At(m, code) = MINUS \/ IsDigit(At(m, code)))
             THEN strtol(m, code).val ELSE 0,
         error_message |-> quoted_field(m, K_message).val,
         agent_id |-> IF Len(agent) > 0 THEN Some(agent) ELSE Unset,
         encrypted |-> enc,
         ciphertext |-> IF enc THEN quoted_field(m, K_ciphertext).val ELSE Unset,
         iv |-> IF enc THEN quoted_field(m, K_iv).val ELSE Unset,
         ratchet_header |->
           IF enc THEN brace_field(m, K_ratchet_header).val ELSE Unset]

\* C8: every field of the Message is what its own scan yields on the
\* unmodified text, whatever the fields extracted before it did.  Stated for
\* the calls whose scans all stayed inside the text, where nothing but an
\* earlier field's extraction can have changed what a scan sees.
C8_FieldsIndependent ==
    (Extracted /\ hi <= Len(Text) + 1) => json_data = AloneMessage(Text)

\* C9: ciphertext, iv and ratchet_header are set only if encrypted is true,
\* and when the value after the first "encrypted" key of the payload is not
\* the literal true, or there is no such key, encrypted is false and the
\* three are unset.
C9_EncryptionGating ==
    Extracted =>
      /\ (json_data.ciphertext.set \/ json_data.iv.set
            \/ json_data.ratchet_header.set) => json_data.encrypted
      /\ ~EncTrue(Text) =>
           (~json_data.encrypted /\ ~json_data.ciphertext.set
              /\ ~json_data.iv.set /\ ~json_data.ratchet_header.set)

\* the value steps 1-4 yield for a quoted key inside the params substring
StepsInParams(params, key) == quoted_field(params \o <<NUL>>, key).val

HasValue(v) == v.set /\ Len(v.val) > 0

\* agent_id as the claim words it: "agentId" first, "agent_id" when that
\* yields no value
AgentIdNoValueFallback(params) ==
    IF HasValue(StepsInParams(params, K_agentId))
      THEN StepsInParams(params, K_agentId)
    ELSE IF HasValue(StepsInParams(params, K_agent_id))
      THEN StepsInParams(params, K_agent_id)
    ELSE Unset

\* agent_id as amended: "agent_id" is consulted only when the key "agentId"
\* does not occur in params; an empty value, or one of 256 bytes or more,
\* leaves agent_id unset
AgentIdKeyAbsentFallback(params) ==
    LET key == IF strstr(params \o <<NUL>>, 1, K_agentId) # 0
                 THEN K_agentId ELSE K_agent_id
        v == StepsInParams(params, key)
    IN  IF HasValue(v) /\ Len(v.val) < AGENT_ID_LEN THEN v ELSE Unset

\* C10 as stated: agent_id is set only if params is set and is the value of
\* "agentId" in params or, when that yields no value, of "agent_id" in params.
C10_AgentIdNoValueFallback ==
    Done =>
      /\ json_data.agent_id.set => json_data.params.set
      /\ json_data.params.set =>
           json_data.agent_id = AgentIdNoValueFallback(json_data.params.val)

\* C10 as amended: agent_id is set only if params is set and is derived from
\* the params substring alone: the non-empty quoted value (shorter than 256
\* bytes) of "agentId" when that key occurs in params, of "agent_id" only
\* when "agentId" does not occur in params, and unset otherwise.
C10_AgentIdFromParams ==
    Done =>
      /\ json_data.agent_id.set => json_data.params.set
      /\ json_data.params.set =>
           json_data.agent_id = AgentIdKeyAbsentFallback(json_data.params.val)

\* "agent_id" was used inside params while the text holds an "agentId"
\* outside params
C10_Witness ==
    /\ Done /\ json_data.params.set
    /\ strstr(json_data.params.val \o <<NUL>>, 1, K_agentId) = 0
    /\ strstr(Text \o <<NUL>>, 1, K_agentId) # 0
    /\ json_data.agent_id = Some(<<98>>)

\* the summary as the convention words it, for a Message with a method
Summary(d) ==
    S_MCP_method \o d.method.val
      \o (IF d.encrypted THEN S_Encrypted ELSE <<>>)
      \o (IF d.error_code # 0
            THEN S_ERROR \o format_d(d.error_code) \o S_ERROR_end ELSE <<>>)

\* C11 as stated: for every Message, when method is set the summary is
\* "MCP " + method, then " (Encrypted)" if encrypted, then " [ERROR <code>]"
\* if error_code is not 0; when method is unset nothing is written to the
\* summary, the error suffix included.
C11_SummaryOnlyWithMethod ==
    Extracted =>
      cinfo.info = (IF json_data.method.set THEN Summary(json_data) ELSE cinfo0.info)

\* C11 as amended: the columns are written only for a Message whose version
\* is "2.0".  For such a Message the summary is "MCP " + method, then
\* " (Encrypted)" if encrypted, when method is set, and is left as it was
\* when method is unset; in both cases " [ERROR <code>]" is appended to it
\* if error_code is not 0.
C11_SummaryOfVersion2 ==
    Done =>
      IF json_data.jsonrpc = Some(S_2_0)
        THEN /\ cinfo.protocol = S_MCP
             /\ cinfo.info =
                  (IF json_data.method.set
                     THEN S_MCP_method \o json_data.method.val
                            \o (IF json_data.encrypted THEN S_Encrypted ELSE <<>>)
                     ELSE cinfo0.info)
                    \o (IF json_data.error_code # 0
                          THEN S_ERROR \o format_d(json_data.error_code) \o S_ERROR_end
                          ELSE <<>>)
        ELSE cinfo = cinfo0

\* a version 2.0 error response without a method: the suffix " [ERROR -5]"
\* is appended to the text the column had
C11_Witness ==
    /\ Done /\ json_data.jsonrpc = Some(S_2_0) /\ ~json_data.method.set
    /\ json_data.error_code = 0 - 5
    /\ cinfo0.info = S_ports
    /\ cinfo.info = S_ports \o <<32, 91, 69, 82, 82, 79, 82, 32, 45, 53, 93>>

\* the positions after v holding the delimiter of a numeric id
IdDelimiters(text, v) == {e \in v..Len(text) : text[e] \in {COMMA, RBRACE}}

\* the positions after the opening quote at v holding a quote
IdQuotes(text, v) == {e \in (v + 1)..Len(text) : text[e] = QUOTE}

IdNumericStart(c) == IsDigit(c) \/ c = MINUS

\* C13: id is set only when the value of the first "id" key starts with a
\* quote, a digit or -; a quoted value yields the text between the quotes, a
\* numeric value the characters up to the next , or }.
C13_IdOnlyQuotedOrNumeric ==
    Extracted =>
      LET v == ValuePos(Text, K_id)
      IN  /\ json_data.id.set =>
               (v # 0 /\ (At(Text, v) = QUOTE \/ IdNumericStart(At(Text, v))))
          /\ (v # 0 /\ At(Text, v) = QUOTE /\ IdQuotes(Text, v) # {})
               => json_data.id = Some(SubSeq(Text, v + 1, Min(IdQuotes(Text, v)) - 1))
          /\ (v # 0 /\ IdNumericStart(At(Text, v)) /\ IdDelimiters(Text, v) # {})
               => json_data.id = Some(SubSeq(Text, v, Min(IdDelimiters(Text, v)) - 1))

\* C12: extraction has no hidden state: a call on the text of the first
\* extraction, whatever packets were dissected in between, yields the
\* Message the first extraction yielded.
C12_SameAsFirst ==
    (Extracted /\ first.set /\ Text = first.text) => json_data = first.data

====
